---- MODULE Spec2Model ----
(***************************************************************************)
(* A model of the spinner / progress-indicator subsystem of                *)
(* src/src/terminalapp/utils/ui.py: class Spinner (a background animation  *)
(* thread controlled by the running flag), the show_progress decorator and *)
(* the UI.progress context manager.                                        *)
(*                                                                         *)
(* Strings are sequences of tokens; a token is one character, except the   *)
(* literal prefix "Failed: " and the glyphs, which are one token each.     *)
(* The output stream is the sequence `out` of the writes made to           *)
(* sys.stdout, each annotated with the thread or spinner that made it.     *)
(***************************************************************************)
EXTENDS Integers, Sequences, FiniteSets, TLC

\* ------------------------------------------------------------------ bounds
\* Calls the foreground driver makes on the Spinner API (Spec).
MaxCalls == 5
\* Loop iterations (frame writes) one animation thread makes.
MaxFrames == 1
\* Length of the message argument of a Progress Scope (SpecScope).
MaxMsgLen == 4
\* Progress Scope activations of one run (SpecScope).
MaxActivations == 1
\* update_message calls made by the enclosed work of one activation.
MaxUpdates == 1

\* Depth of activations nested inside the enclosed work of an activation.
MaxNesting == 1

\* ------------------------------------------------------------- constants
None == 0

\* Colors (ui.py 24-34), by name.
CYAN == "CYAN"
GREEN == "GREEN"
RED == "RED"

\* The glyphs passed to stop(): "check" is the success glyph, "cross" the
\* failure glyph.
CheckGlyph == "check"
CrossGlyph == "cross"

\* len(Spinner.FRAMES)
NumFrames == 10

\* Execution contexts that call the Spinner API.
Ctx == {"main", "other"}

\* Spinner objects: one per activation, top-level or nested.
Spinners == 1 .. (MaxActivations + MaxNesting)
\* Thread objects: every start() call of a run may create one.
Threads == 1 .. MaxCalls

\* ---------------------------------------------------------------- strings
Chars == {"a", "."}

RECURSIVE StringsUpTo(_)
StringsUpTo(n) ==
    IF n = 0 THEN {<<>>}
    ELSE LET shorter == StringsUpTo(n - 1)
         IN  shorter \cup {<<ch>> \o s : ch \in Chars, s \in {x \in shorter : Len(x) = n - 1}}

\* Messages the API driver constructs a Spinner with or sets.
ApiMessages == {<<>>, <<"a">>, <<"a", "a", "a">>}
\* final_message arguments of stop() in the API driver.
ApiFinals == {<<>>, <<"D">>}
\* Messages a Progress Scope is entered with.
ScopeMessages == StringsUpTo(MaxMsgLen)
\* success_message arguments ("" is the default: not provided).
SuccessMessages == {<<>>, <<"S">>}
\* Messages the enclosed work sets through the yielded handle.
UpdateMessages == {<<"u">>}
\* Descriptions str(e) of the errors the enclosed work raises.
ErrorDescs == {<<>>, <<"d">>}

\* str.replace("...", " ✓"): left to right, non-overlapping occurrences.
RECURSIVE ReplaceDots(_)
ReplaceDots(s) ==
    IF Len(s) < 3 THEN s
    ELSE IF s[1] = "." /\ s[2] = "." /\ s[3] = "."
         THEN <<" ", CheckGlyph>> \o ReplaceDots(SubSeq(s, 4, Len(s)))
         ELSE <<s[1]>> \o ReplaceDots(Tail(s))

\* f"Failed: {str(e)}"
FailedText(desc) == <<"Failed: ">> \o desc

\* ------------------------------------------------------------------ state
VARIABLES
    \* Spinner objects
    nspinners,      \* Spinner objects constructed so far
    message,        \* message[s]: self.message
    color,          \* color[s]: self.color
    running,        \* running[s]: self.running
    thread,         \* thread[s]: self.thread (None or a thread)
    seen,           \* seen[s]: history, _animate has read self.message since
                    \* its text last changed (kept for the Spinners in use)
    \* threading.Thread objects running Spinner._animate
    nthreads,       \* Thread objects created so far
    tself,          \* tself[t]: the Spinner whose _animate the thread runs
    tpc,            \* tpc[t]: "unborn","created","check","format","write","sleep","exited"
    tidx,           \* tidx[t]: the local idx of _animate
    tstr,           \* tstr[t]: the formatted frame text about to be written
    \* sys.stdout
    out,
    \* the call of a Spinner method in progress in each context
    fpc,            \* fpc[c]: "idle" or the position inside start()/stop()
    fself,          \* fself[c]: the Spinner the method was called on
    fargs,          \* fargs[c]: stop()'s final_message, symbol, symbol_color
    fret,           \* fret[c]: how the last call of the context ended
    ncalls,         \* API calls made by the driver (Spec)
    \* Progress Scope activations (SpecScope)
    mode,           \* "api", "conc" or "scope": which driver runs
    outer,          \* the activations suspended while their enclosed work
                    \* is inside an inner activation, outermost first
    argMessage,     \* the message argument of the activations
    argSuccess,     \* the success_message argument of the activations
    spc,            \* position inside the activation in progress
    form,           \* "scope" (UI.progress) or "wrapper" (show_progress)
    spin,           \* the local variable spinner of the activation
    work,           \* outcome of the enclosed work: NoWork until it ends
    nupdates,       \* update_message calls made by the enclosed work
    oplog,          \* Spinner operations the activation has called
    current_spinner,\* UI.current_spinner
    nacts,          \* activations begun
    result          \* what the activation handed to its caller when it exited

spinnerVars == <<nspinners, message, color, running, thread, seen>>
threadVars == <<nthreads, tself, tpc, tidx, tstr>>
callVars == <<fpc, fself, fargs, fret>>
scopeVars == <<mode, outer, argMessage, argSuccess, spc, form, spin, work, nupdates,
               oplog, current_spinner, nacts, result>>
vars == <<spinnerVars, threadVars, out, callVars, ncalls, scopeVars>>

\* No outcome yet: the enclosed work has not ended.
NoWork == [kind |-> "none"]

NoArgs == [final_message |-> <<>>, symbol |-> CheckGlyph, symbol_color |-> GREEN]

\* --------------------------------------------------------------- Spinner

\* Spinner.__init__(message, color): a new inert, non-running instance.
\* The history of the Spinners that are not running is dropped with it:
\* the activation that owned them has exited and nothing refers to them.
SpinnerInit(s, m, col) ==
    /\ nspinners' = s
    /\ message' = [message EXCEPT ![s] = m]
    /\ color' = [color EXCEPT ![s] = col]
    /\ running' = [running EXCEPT ![s] = FALSE]
    /\ thread' = [thread EXCEPT ![s] = None]
    /\ seen' = [x \in Spinners |-> IF x = s \/ ~running[x] THEN FALSE ELSE seen[x]]

\* A context returns from a Spinner method.
Return(c, how) ==
    /\ fpc' = [fpc EXCEPT ![c] = "idle"]
    /\ fret' = [fret EXCEPT ![c] = how]
    /\ UNCHANGED <<fself, fargs>>

Goto(c, pos) ==
    /\ fpc' = [fpc EXCEPT ![c] = pos]
    /\ UNCHANGED <<fself, fargs, fret>>

\* Entering a method of Spinner s in context c.
Call(c, s, pos, args) ==
    /\ fpc[c] = "idle"
    /\ fpc' = [fpc EXCEPT ![c] = pos]
    /\ fself' = [fself EXCEPT ![c] = s]
    /\ fargs' = [fargs EXCEPT ![c] = args]
    /\ fret' = [fret EXCEPT ![c] = "pending"]

\* start() without its guard: it proceeds whether running or not.
StartTestUnguarded(c) ==
    /\ fpc[c] = "start_test"
    /\ Goto(c, "start_set")
    /\ UNCHANGED <<spinnerVars, threadVars, out, ncalls, scopeVars>>

\* start(), line 92: if not self.running
StartTest(c) ==
    /\ fpc[c] = "start_test"
    /\ IF ~running[fself[c]]
       THEN Goto(c, "start_set")
       ELSE Return(c, "start_noop")
    /\ UNCHANGED <<spinnerVars, threadVars, out, ncalls, scopeVars>>

\* start(), line 93: self.running = True
StartSet(c) ==
    /\ fpc[c] = "start_set"
    /\ running' = [running EXCEPT ![fself[c]] = TRUE]
    /\ Goto(c, "start_create")
    /\ UNCHANGED <<nspinners, message, color, thread, seen, threadVars, out, ncalls, scopeVars>>

\* start(), line 94: self.thread = threading.Thread(target=self._animate)
StartCreate(c) ==
    /\ fpc[c] = "start_create"
    /\ nthreads < MaxCalls
    /\ LET t == nthreads + 1
       IN  /\ nthreads' = t
           /\ tself' = [tself EXCEPT ![t] = fself[c]]
           /\ tpc' = [tpc EXCEPT ![t] = "created"]
           /\ thread' = [thread EXCEPT ![fself[c]] = t]
    /\ Goto(c, "start_launch")
    /\ UNCHANGED <<nspinners, message, color, running, seen, tidx, tstr, out, ncalls, scopeVars>>

\* start(), line 95: self.thread.start(); _animate begins with idx = 0
StartLaunch(c) ==
    /\ fpc[c] = "start_launch"
    /\ tpc' = [tpc EXCEPT ![thread[fself[c]]] = "check"]
    /\ tidx' = [tidx EXCEPT ![thread[fself[c]]] = 0]
    /\ Return(c, "start_done")
    /\ UNCHANGED <<spinnerVars, nthreads, tself, tstr, out, ncalls, scopeVars>>

\* stop() without its guard: it proceeds whether running or not.
StopTestUnguarded(c) ==
    /\ fpc[c] = "stop_test"
    /\ Goto(c, "stop_set")
    /\ UNCHANGED <<spinnerVars, threadVars, out, ncalls, scopeVars>>

\* stop(), line 109: if self.running
StopTest(c) ==
    /\ fpc[c] = "stop_test"
    /\ IF running[fself[c]]
       THEN Goto(c, "stop_set")
       ELSE Return(c, "stop_noop")
    /\ UNCHANGED <<spinnerVars, threadVars, out, ncalls, scopeVars>>

\* stop(), line 110: self.running = False
StopSet(c) ==
    /\ fpc[c] = "stop_set"
    /\ running' = [running EXCEPT ![fself[c]] = FALSE]
    /\ Goto(c, "stop_join")
    /\ UNCHANGED <<nspinners, message, color, thread, seen, threadVars, out, ncalls, scopeVars>>

\* The join has nothing to wait for: no thread, or a thread that has exited.
Joined(s) == thread[s] = None \/ tpc[thread[s]] = "exited"

\* stop() without the join: it goes on to clear the line at once.
StopJoinNoWait(c) ==
    /\ fpc[c] = "stop_join"
    /\ Goto(c, "stop_clear")
    /\ UNCHANGED <<spinnerVars, threadVars, out, ncalls, scopeVars>>

\* stop(), lines 111-112: if self.thread: self.thread.join()
\* Thread.join() on a thread that was created and not yet started raises
\* RuntimeError; otherwise the caller blocks until the thread has exited.
StopJoin(c) ==
    /\ fpc[c] = "stop_join"
    /\ IF thread[fself[c]] # None /\ tpc[thread[fself[c]]] = "created"
       THEN Return(c, "stop_raised")
       ELSE /\ Joined(fself[c])
            /\ Goto(c, "stop_clear")
    /\ UNCHANGED <<spinnerVars, threadVars, out, ncalls, scopeVars>>

\* stop(), line 114: sys.stdout.write("\r" + " " * (len(self.message) + 10) + "\r")
StopClear(c) ==
    /\ fpc[c] = "stop_clear"
    /\ out' = Append(out, [k |-> "clear", of |-> fself[c],
                           width |-> Len(message[fself[c]]) + 10])
    /\ Goto(c, "stop_print")
    /\ UNCHANGED <<spinnerVars, threadVars, ncalls, scopeVars>>

\* stop() printing the status line whether or not final_message is empty.
StopFinalLineAlways(c) ==
    /\ fpc[c] = "stop_print"
    /\ out' = Append(out, [k |-> "line", of |-> fself[c],
                           color |-> fargs[c].symbol_color,
                           symbol |-> fargs[c].symbol,
                           text |-> fargs[c].final_message])
    /\ Return(c, "stop_done")
    /\ UNCHANGED <<spinnerVars, threadVars, ncalls, scopeVars>>

\* stop(), lines 115-117: if final_message: print(...); sys.stdout.flush()
StopFinalLine(c) ==
    /\ fpc[c] = "stop_print"
    /\ out' = IF fargs[c].final_message # <<>>
              THEN Append(out, [k |-> "line", of |-> fself[c],
                                color |-> fargs[c].symbol_color,
                                symbol |-> fargs[c].symbol,
                                text |-> fargs[c].final_message])
              ELSE out
    /\ Return(c, "stop_done")
    /\ UNCHANGED <<spinnerVars, threadVars, ncalls, scopeVars>>

\* update_message(message), line 126: self.message = message
UpdateMessage(s, m) ==
    /\ message' = [message EXCEPT ![s] = m]
    /\ seen' = [seen EXCEPT ![s] = IF m = message[s] THEN seen[s] ELSE FALSE]

\* The locals of a thread that is not inside _animate.
NoFrame == [color |-> CYAN, frame |-> 0, text |-> <<>>]

\* _animate looping without polling the flag: it never returns.
AnimateCheckIgnoresFlag(t) ==
    /\ tpc[t] = "check"
    /\ tidx[t] < MaxFrames
    /\ tpc' = [tpc EXCEPT ![t] = "format"]
    /\ UNCHANGED <<tidx, tstr>>
    /\ UNCHANGED <<spinnerVars, nthreads, tself, out, callVars, ncalls, scopeVars>>

\* _animate, line 77: while self.running
\* When the flag is false _animate returns: the thread exits and its locals
\* are gone.
AnimateCheck(t) ==
    /\ tpc[t] = "check"
    /\ IF running[tself[t]]
       THEN /\ tidx[t] < MaxFrames
            /\ tpc' = [tpc EXCEPT ![t] = "format"]
            /\ UNCHANGED <<tidx, tstr>>
       ELSE /\ tpc' = [tpc EXCEPT ![t] = "exited"]
            /\ tidx' = [tidx EXCEPT ![t] = 0]
            /\ tstr' = [tstr EXCEPT ![t] = NoFrame]
    /\ UNCHANGED <<spinnerVars, nthreads, tself, out, callVars, ncalls, scopeVars>>

\* _animate rendering a copy of the message kept in its locals instead of
\* reading self.message on every iteration.
AnimateFormatCached(t) ==
    /\ tpc[t] = "format"
    /\ tstr' = [tstr EXCEPT ![t] = [color |-> color[tself[t]],
                                    frame |-> tidx[t] % NumFrames,
                                    text |-> tstr[t].text]]
    /\ tpc' = [tpc EXCEPT ![t] = "write"]
    /\ seen' = [seen EXCEPT ![tself[t]] = TRUE]
    /\ UNCHANGED <<nspinners, message, color, running, thread, nthreads, tself,
                   tidx, out, callVars, ncalls, scopeVars>>

\* _animate, lines 78-80: the f-string reads self.color, the frame and
\* self.message before the write is made
AnimateFormat(t) ==
    /\ tpc[t] = "format"
    /\ tstr' = [tstr EXCEPT ![t] = [color |-> color[tself[t]],
                                    frame |-> tidx[t] % NumFrames,
                                    text |-> message[tself[t]]]]
    /\ tpc' = [tpc EXCEPT ![t] = "write"]
    /\ seen' = [seen EXCEPT ![tself[t]] = TRUE]
    /\ UNCHANGED <<nspinners, message, color, running, thread, nthreads, tself,
                   tidx, out, callVars, ncalls, scopeVars>>

\* _animate, lines 80-81: sys.stdout.write(...); sys.stdout.flush()
AnimateWrite(t) ==
    /\ tpc[t] = "write"
    /\ out' = Append(out, [k |-> "frame", of |-> tself[t], by |-> t,
                           color |-> tstr[t].color, frame |-> tstr[t].frame,
                           text |-> tstr[t].text])
    /\ tpc' = [tpc EXCEPT ![t] = "sleep"]
    /\ UNCHANGED <<spinnerVars, nthreads, tself, tidx, tstr, callVars, ncalls, scopeVars>>

\* _animate, lines 82-83: time.sleep(0.08); idx += 1
AnimateSleep(t) ==
    /\ tpc[t] = "sleep"
    /\ tidx' = [tidx EXCEPT ![t] = tidx[t] + 1]
    /\ tpc' = [tpc EXCEPT ![t] = "check"]
    /\ UNCHANGED <<spinnerVars, nthreads, tself, tstr, out, callVars, ncalls, scopeVars>>

\* One step of some animation thread.
Animate ==
    \E t \in Threads :
        AnimateCheck(t) \/ AnimateFormat(t) \/ AnimateWrite(t) \/ AnimateSleep(t)

\* One step of a Spinner method in progress in context c.
SpinnerStep(c) ==
    \/ StartTest(c)
    \/ StartSet(c)
    \/ StartCreate(c)
    \/ StartLaunch(c)
    \/ StopTest(c)
    \/ StopSet(c)
    \/ StopJoin(c)
    \/ StopClear(c)
    \/ StopFinalLine(c)

\* ------------------------------------------------------------ API driver
\* The foreground context calls start(), stop() and update_message() on one
\* Spinner in any order (as main.py and the demos do with their Spinner).

ApiStart(c) ==
    /\ mode = "api"
    /\ ncalls < MaxCalls
    /\ ncalls' = ncalls + 1
    /\ Call(c, 1, "start_test", NoArgs)
    /\ UNCHANGED <<spinnerVars, threadVars, out, scopeVars>>

ApiStop(c) ==
    /\ mode = "api"
    /\ ncalls < MaxCalls
    /\ ncalls' = ncalls + 1
    /\ \E fm \in ApiFinals, sym \in {CheckGlyph, CrossGlyph}, col \in {GREEN, RED} :
          Call(c, 1, "stop_test",
               [final_message |-> fm, symbol |-> sym, symbol_color |-> col])
    /\ UNCHANGED <<spinnerVars, threadVars, out, scopeVars>>

ApiUpdateMessage(c) ==
    /\ mode = "api"
    /\ ncalls < MaxCalls
    /\ fpc[c] = "idle"
    /\ ncalls' = ncalls + 1
    /\ \E m \in ApiMessages : UpdateMessage(1, m)
    /\ fret' = [fret EXCEPT ![c] = "update_done"]
    /\ UNCHANGED <<nspinners, color, running, thread, threadVars, out,
                   fpc, fself, fargs, scopeVars>>

\* ------------------------------------------------------------------ Init
InitCommon ==
    /\ color = [s \in Spinners |-> CYAN]
    /\ running = [s \in Spinners |-> FALSE]
    /\ thread = [s \in Spinners |-> None]
    /\ seen = [s \in Spinners |-> FALSE]
    /\ nthreads = 0
    /\ tself = [t \in Threads |-> None]
    /\ tpc = [t \in Threads |-> "unborn"]
    /\ tidx = [t \in Threads |-> 0]
    /\ tstr = [t \in Threads |-> NoFrame]
    /\ out = <<>>
    /\ fpc = [c \in Ctx |-> "idle"]
    /\ fself = [c \in Ctx |-> None]
    /\ fargs = [c \in Ctx |-> NoArgs]
    /\ fret = [c \in Ctx |-> "none"]
    /\ ncalls = 0
    /\ outer = <<>>
    /\ spc = "none"
    /\ form = "none"
    /\ spin = None
    /\ work = NoWork
    /\ nupdates = 0
    /\ oplog = <<>>
    /\ current_spinner = None
    /\ nacts = 0
    /\ result = NoWork

\* One Spinner(message) has been constructed; nothing has been called.
Init ==
    /\ InitCommon
    /\ mode = "api"
    /\ nspinners = 1
    /\ \E m \in ApiMessages : message = [s \in Spinners |-> IF s = 1 THEN m ELSE <<>>]
    /\ argMessage = <<>>
    /\ argSuccess = <<>>

Next ==
    \/ ApiStart("main")
    \/ ApiStop("main")
    \/ ApiUpdateMessage("main")
    \/ SpinnerStep("main")
    \/ Animate

Spec == Init /\ [][Next]_vars

\* -------------------------------------------------------- Progress Scope
\* One activation at a time runs in the main context, in either form, with
\* the arguments (argMessage, argSuccess).  spc is the position inside it:
\*   "none"     no activation in progress
\*   "start"    the Spinner is constructed, start() is to be called
\*   "work"     start() was called; the enclosed work runs after it returns
\*   "stop_ok"  the success stop() was called
\*   "stop_fail" the failure stop() was called
\*   "finally"  the finally clause of UI.progress is to run
\*   "exit"     the wrapper is to return or let the error propagate
\*   "done"     the activation has exited

\* The error classes the enclosed work raises: an ordinary error (a subclass
\* of Exception) and an interruption (a BaseException that is none).
ErrorClasses == {"Exception", "KeyboardInterrupt"}

\* isinstance(e, Exception): what `except Exception` catches.
IsException(e) == e.cls = "Exception"

Returned == [kind |-> "return"]

Raised(cls, desc) == [kind |-> "raise", cls |-> cls, desc |-> desc]

\* A call of a Spinner method made by the main context has returned.
CallReturned == fpc["main"] = "idle"

\* The activation hands the outcome r to its caller and is over; what it did
\* stays on record until the next activation begins.
Exit(r) ==
    /\ result' = r
    /\ spc' = "done"
    /\ UNCHANGED <<form, spin, work, nupdates, oplog>>

\* An activation can begin: none is in progress, and the program goes on.
\* No caller in the repository catches an interruption (agent_demo.py 102-122
\* catches Exception only): it propagates to the top level and the program
\* ends, so no activation follows one that an interruption left.
CanEnter ==
    /\ mode = "scope"
    /\ outer = <<>>
    /\ spc \in {"none", "done"}
    /\ nacts < MaxActivations
    /\ result.kind = "raise" => IsException(result)

\* The completion text derived from the message whether or not a
\* success_message is given.
SuccessMsgIgnoresSuccess(msg, success) == ReplaceDots(msg)

\* success_message or message.replace("...", " ✓")  (lines 157, 212)
SuccessMsg(msg, success) ==
    IF success # <<>> THEN success ELSE ReplaceDots(msg)

\* The arguments of the success stop (lines 158, 213).
SuccessStop(msg, success) ==
    [final_message |-> SuccessMsg(msg, success),
     symbol |-> CheckGlyph, symbol_color |-> GREEN]

\* The arguments of the failure stop (lines 162, 215).
FailureStop(e) ==
    [final_message |-> FailedText(e.desc),
     symbol |-> CrossGlyph, symbol_color |-> RED]

StopOp(args) == [op |-> "stop", args |-> args]

\* UI.progress, lines 206-207: spinner = Spinner(message, color=Colors.CYAN);
\* self.current_spinner = spinner
ProgressEnter ==
    /\ CanEnter
    /\ nacts' = nacts + 1
    /\ work' = NoWork
    /\ nupdates' = 0
    /\ result' = NoWork
    /\ SpinnerInit(nspinners + 1, argMessage, CYAN)
    /\ spin' = nspinners + 1
    /\ current_spinner' = nspinners + 1
    /\ form' = "scope"
    /\ spc' = "start"
    /\ oplog' = <<[op |-> "construct", message |-> argMessage, color |-> CYAN]>>
    /\ UNCHANGED <<threadVars, out, callVars, ncalls, mode, outer, argMessage, argSuccess>>

\* UI.progress, line 208: spinner.start()
ProgressStart ==
    /\ form = "scope"
    /\ spc = "start"
    /\ Call("main", spin, "start_test", NoArgs)
    /\ oplog' = Append(oplog, [op |-> "start"])
    /\ spc' = "work"
    /\ UNCHANGED <<spinnerVars, threadVars, out, ncalls, mode, outer, argMessage, argSuccess,
                   form, spin, work, nupdates, current_spinner, nacts, result>>

\* The enclosed work of UI.progress calls spinner.update_message(m) on the
\* yielded handle (as demo_ui_logger.py 87-92 does).
WorkUpdateMessage ==
    /\ form = "scope"
    /\ spc = "work"
    /\ work = NoWork
    /\ CallReturned
    /\ nupdates < MaxUpdates
    /\ nupdates' = nupdates + 1
    /\ \E m \in UpdateMessages :
          /\ UpdateMessage(spin, m)
          /\ oplog' = Append(oplog, [op |-> "update_message", message |-> m])
    /\ UNCHANGED <<nspinners, color, running, thread, threadVars, out, callVars, ncalls,
                   mode, outer, argMessage, argSuccess, spc, form, spin, work,
                   current_spinner, nacts, result>>

\* The enclosed work (the body of the with statement, or func of line 155)
\* returns.
WorkReturns ==
    /\ form \in {"scope", "wrapper"}
    /\ spc = "work"
    /\ work = NoWork
    /\ CallReturned
    /\ work' = Returned
    /\ UNCHANGED <<spinnerVars, threadVars, out, callVars, ncalls, mode, outer, argMessage,
                   argSuccess, spc, form, spin, nupdates, oplog, current_spinner,
                   nacts, result>>

\* The enclosed work raises an error e with str(e) = desc.
WorkRaises ==
    /\ form \in {"scope", "wrapper"}
    /\ spc = "work"
    /\ work = NoWork
    /\ CallReturned
    /\ \E cls \in ErrorClasses, desc \in ErrorDescs : work' = Raised(cls, desc)
    /\ UNCHANGED <<spinnerVars, threadVars, out, callVars, ncalls, mode, outer, argMessage,
                   argSuccess, spc, form, spin, nupdates, oplog, current_spinner,
                   nacts, result>>

\* The success stop deriving its text from the Spinner's current message
\* instead of the message argument.
ProgressStopOkCurrentMessage ==
    /\ form = "scope"
    /\ spc = "work"
    /\ work.kind = "return"
    /\ Call("main", spin, "stop_test", SuccessStop(message[spin], argSuccess))
    /\ oplog' = Append(oplog, StopOp(SuccessStop(message[spin], argSuccess)))
    /\ spc' = "stop_ok"
    /\ UNCHANGED <<spinnerVars, threadVars, out, ncalls, mode, outer, argMessage, argSuccess,
                   form, spin, work, nupdates, current_spinner, nacts, result>>

\* UI.progress, lines 212-213: the success stop, made with the message
\* argument of the activation.
ProgressStopOk ==
    /\ form = "scope"
    /\ spc = "work"
    /\ work.kind = "return"
    /\ Call("main", spin, "stop_test", SuccessStop(argMessage, argSuccess))
    /\ oplog' = Append(oplog, StopOp(SuccessStop(argMessage, argSuccess)))
    /\ spc' = "stop_ok"
    /\ UNCHANGED <<spinnerVars, threadVars, out, ncalls, mode, outer, argMessage, argSuccess,
                   form, spin, work, nupdates, current_spinner, nacts, result>>

\* UI.progress, lines 214-215: except Exception as e: the failure stop.
\* An error that is no Exception passes the except clause by.
ProgressStopFail ==
    /\ form = "scope"
    /\ spc = "work"
    /\ work.kind = "raise"
    /\ IF IsException(work)
       THEN /\ Call("main", spin, "stop_test", FailureStop(work))
            /\ oplog' = Append(oplog, StopOp(FailureStop(work)))
            /\ spc' = "stop_fail"
       ELSE /\ spc' = "finally"
            /\ UNCHANGED <<callVars, oplog>>
    /\ UNCHANGED <<spinnerVars, threadVars, out, ncalls, mode, outer, argMessage, argSuccess,
                   form, spin, work, nupdates, current_spinner, nacts, result>>

\* UI.progress: the success stop() has returned (end of the try block), or
\* the failure stop() has returned and line 216 re-raises: the finally
\* clause is next.
ProgressAfterStop ==
    /\ form = "scope"
    /\ spc \in {"stop_ok", "stop_fail"}
    /\ CallReturned
    /\ spc' = "finally"
    /\ UNCHANGED <<spinnerVars, threadVars, out, callVars, ncalls, mode, outer, argMessage,
                   argSuccess, form, spin, work, nupdates, oplog, current_spinner,
                   nacts, result>>

\* UI.progress, lines 217-218: finally: self.current_spinner = None; the
\* with statement then completes, or the error of the enclosed work
\* propagates to the caller.
ProgressFinally ==
    /\ form = "scope"
    /\ spc = "finally"
    /\ current_spinner' = None
    /\ Exit(work)
    /\ UNCHANGED <<spinnerVars, threadVars, out, callVars, ncalls, mode, outer, argMessage,
                   argSuccess, nacts>>

\* show_progress.wrapper, line 152: spinner = Spinner(message, color=Colors.CYAN)
WrapperEnter ==
    /\ CanEnter
    /\ nacts' = nacts + 1
    /\ work' = NoWork
    /\ nupdates' = 0
    /\ result' = NoWork
    /\ SpinnerInit(nspinners + 1, argMessage, CYAN)
    /\ spin' = nspinners + 1
    /\ form' = "wrapper"
    /\ spc' = "start"
    /\ oplog' = <<[op |-> "construct", message |-> argMessage, color |-> CYAN]>>
    /\ UNCHANGED <<threadVars, out, callVars, ncalls, mode, outer, argMessage, argSuccess,
                   current_spinner>>

\* show_progress.wrapper, line 153: spinner.start()
WrapperStart ==
    /\ form = "wrapper"
    /\ spc = "start"
    /\ Call("main", spin, "start_test", NoArgs)
    /\ oplog' = Append(oplog, [op |-> "start"])
    /\ spc' = "work"
    /\ UNCHANGED <<spinnerVars, threadVars, out, ncalls, mode, outer, argMessage, argSuccess,
                   form, spin, work, nupdates, current_spinner, nacts, result>>

\* show_progress.wrapper, lines 157-158: the success stop.
WrapperStopOk ==
    /\ form = "wrapper"
    /\ spc = "work"
    /\ work.kind = "return"
    /\ Call("main", spin, "stop_test", SuccessStop(argMessage, argSuccess))
    /\ oplog' = Append(oplog, StopOp(SuccessStop(argMessage, argSuccess)))
    /\ spc' = "stop_ok"
    /\ UNCHANGED <<spinnerVars, threadVars, out, ncalls, mode, outer, argMessage, argSuccess,
                   form, spin, work, nupdates, current_spinner, nacts, result>>

\* The wrapper's failure path stopping the Spinner with the bare description
\* of the error, without the "Failed: " prefix.
WrapperStopFailBareText ==
    /\ form = "wrapper"
    /\ spc = "work"
    /\ work.kind = "raise"
    /\ IF IsException(work)
       THEN /\ Call("main", spin, "stop_test",
                    [FailureStop(work) EXCEPT !.final_message = work.desc])
            /\ oplog' = Append(oplog,
                    StopOp([FailureStop(work) EXCEPT !.final_message = work.desc]))
            /\ spc' = "stop_fail"
       ELSE /\ spc' = "exit"
            /\ UNCHANGED <<callVars, oplog>>
    /\ UNCHANGED <<spinnerVars, threadVars, out, ncalls, mode, outer, argMessage, argSuccess,
                   form, spin, work, nupdates, current_spinner, nacts, result>>

\* show_progress.wrapper, lines 160-162: except Exception as e: the failure
\* stop.  An error that is no Exception passes the except clause by.
WrapperStopFail ==
    /\ form = "wrapper"
    /\ spc = "work"
    /\ work.kind = "raise"
    /\ IF IsException(work)
       THEN /\ Call("main", spin, "stop_test", FailureStop(work))
            /\ oplog' = Append(oplog, StopOp(FailureStop(work)))
            /\ spc' = "stop_fail"
       ELSE /\ spc' = "exit"
            /\ UNCHANGED <<callVars, oplog>>
    /\ UNCHANGED <<spinnerVars, threadVars, out, ncalls, mode, outer, argMessage, argSuccess,
                   form, spin, work, nupdates, current_spinner, nacts, result>>

\* show_progress.wrapper, line 159 (return result) and line 163 (raise),
\* once stop() has returned; or the uncaught error leaves the wrapper.
WrapperExit ==
    /\ form = "wrapper"
    /\ \/ spc \in {"stop_ok", "stop_fail"} /\ CallReturned
       \/ spc = "exit"
    /\ Exit(work)
    /\ UNCHANGED <<spinnerVars, threadVars, out, callVars, ncalls, mode, outer, argMessage,
                   argSuccess, current_spinner, nacts>>

\* A UI() and the arguments of the activations; no Spinner exists yet.
InitScope ==
    /\ InitCommon
    /\ mode = "scope"
    /\ nspinners = 0
    /\ message = [s \in Spinners |-> <<>>]
    /\ argMessage \in ScopeMessages
    /\ argSuccess \in SuccessMessages

NextScope ==
    \/ ProgressEnter
    \/ ProgressStart
    \/ WorkUpdateMessage
    \/ WorkReturns
    \/ WorkRaises
    \/ ProgressStopOk
    \/ ProgressStopFail
    \/ ProgressAfterStop
    \/ ProgressFinally
    \/ WrapperEnter
    \/ WrapperStart
    \/ WrapperStopOk
    \/ WrapperStopFail
    \/ WrapperExit
    \/ SpinnerStep("main")
    \/ Animate

SpecScope == InitScope /\ [][NextScope]_vars


\* ------------------------------------------------------- Spinner claims
\* A thread that has been started and has not exited.
Live(t) == tpc[t] \in {"check", "format", "write", "sleep"}

LiveThreads(s) == {t \in Threads : tself[t] = s /\ Live(t)}

Frames(s) == {i \in DOMAIN out : out[i].k = "frame" /\ out[i].of = s}

Clears(s) == {i \in DOMAIN out : out[i].k = "clear" /\ out[i].of = s}

\* The foreground context has returned from a stop() call that found the
\* Spinner running, and has called nothing since.
StopReturned == fpc["main"] = "idle" /\ fret["main"] = "stop_done"

\* C1: once a stop() call made while running is true has returned, the
\* background thread of the Spinner has exited (no started thread of the
\* Spinner is left that could write), and every frame in the output was
\* written before the clear sequence of that stop(): no frame write follows
\* the return of stop().
C1_StopHaltsAnimation ==
    StopReturned =>
        /\ LiveThreads(fself["main"]) = {}
        /\ thread[fself["main"]] # None
        /\ tpc[thread[fself["main"]]] = "exited"
        /\ Clears(fself["main"]) # {}
        /\ \A i \in Frames(fself["main"]) : \E j \in Clears(fself["main"]) : i < j

\* C1 witness: stop() has returned for a Spinner whose thread wrote a frame.
C1_Witness ==
    /\ StopReturned
    /\ Frames(fself["main"]) # {}
    /\ tpc[thread[fself["main"]]] = "exited"

\* C7: a Spinner has at most one background thread that has been launched
\* and has not yet exited.
C7_AtMostOneLiveThread ==
    \A s \in Spinners : Cardinality(LiveThreads(s)) <= 1

\* C7 witness: the Spinner was started again after a completed stop(): an
\* earlier thread has exited and a later one is live.
C7_Witness ==
    \E t1, t2 \in Threads :
        /\ tself[t1] = 1 /\ tself[t2] = 1
        /\ tpc[t1] = "exited"
        /\ Live(t2)

\* C8: a stop() call on a Spinner that is not running returns at once,
\* normally, having written nothing and changed no Spinner or thread state.
C8_StopNotRunningNoop ==
    [][\A c \in Ctx :
          (fpc[c] = "stop_test" /\ ~running[fself[c]] /\ fpc'[c] # fpc[c]) =>
              /\ out' = out
              /\ UNCHANGED spinnerVars
              /\ UNCHANGED threadVars
              /\ fpc'[c] = "idle"
              /\ fret'[c] = "stop_noop"]_vars

\* C8 witness: a stop() with a final message, called after a completed
\* stop(), has returned as a no-op.
C8_Witness ==
    /\ fpc["main"] = "idle"
    /\ fret["main"] = "stop_noop"
    /\ fargs["main"].final_message # <<>>
    /\ Clears(1) # {}

\* C9: a start() call on a Spinner whose running flag is true returns at
\* once: no thread is created or launched, and running, the thread handle,
\* the message and the frame position of the animation are unchanged.
C9_StartRunningNoop ==
    [][\A c \in Ctx :
          (fpc[c] = "start_test" /\ running[fself[c]] /\ fpc'[c] # fpc[c]) =>
              /\ UNCHANGED spinnerVars
              /\ UNCHANGED threadVars
              /\ out' = out
              /\ fpc'[c] = "idle"
              /\ fret'[c] = "start_noop"]_vars

\* C9 witness: start() has returned as a no-op while the thread is live.
C9_Witness ==
    /\ fpc["main"] = "idle"
    /\ fret["main"] = "start_noop"
    /\ running[1]
    /\ LiveThreads(1) # {}

\* ------------------------------------------------ Progress Scope claims
\* The activation has exited: it returned to, or raised into, its caller.
Exited == spc = "done"

OpsNamed(name) == {i \in DOMAIN oplog : oplog[i].op = name}

\* The status lines written for Spinner s.
Lines(s) == {i \in DOMAIN out : out[i].k = "line" /\ out[i].of = s}

\* The Spinner of the activation is stopped: not running, thread exited.
SpinnerStopped ==
    /\ ~running[spin]
    /\ LiveThreads(spin) = {}
    /\ thread[spin] # None
    /\ tpc[thread[spin]] = "exited"

\* C2: whenever a Progress Scope activation exits, its Spinner has been
\* stopped (running is false and the background thread has exited), however
\* the enclosed work ended: return, ordinary error or interruption.
C2_ExitStopsSpinner == Exited => SpinnerStopped

\* C3: in every activation start() is called exactly once and stop() is
\* called exactly once (so exactly one of the success stop and the failure
\* stop executes), whether the enclosed work returns or raises and however
\* many update_message calls it makes.
C3_StartAndStopExactlyOnce ==
    Exited =>
        /\ Cardinality(OpsNamed("start")) = 1
        /\ Cardinality(OpsNamed("stop")) = 1

\* C4: if the enclosed work raises an error with description d, stop() is
\* called with the text "Failed: " + d, the failure glyph and the failure
\* color, the Spinner is stopped and the failure line written before the
\* activation exits, and the caller gets the very same error.
C4_FailureStopThenReraise ==
    (Exited /\ work.kind = "raise") =>
        /\ \E i \in OpsNamed("stop") :
              oplog[i].args = [final_message |-> FailedText(work.desc),
                               symbol |-> CrossGlyph, symbol_color |-> RED]
        /\ SpinnerStopped
        /\ \E i \in Lines(spin) :
              /\ out[i].text = FailedText(work.desc)
              /\ out[i].symbol = CrossGlyph
              /\ out[i].color = RED
        /\ result = work

\* C5: every activation that exits has cleared the spinner line and written
\* exactly one terminating status line, for every message and
\* success_message (empty strings included) and every outcome of the
\* enclosed work.
C5_ClearedAndOneStatusLine ==
    Exited =>
        /\ Clears(spin) # {}
        /\ Cardinality(Lines(spin)) = 1

\* Some three consecutive characters of s are "...".
HasDots(s) ==
    \E i \in 1 .. (Len(s) - 2) : s[i] = "." /\ s[i + 1] = "." /\ s[i + 2] = "."

\* The text with every " ✓" put back to "...".
RECURSIVE Expand(_)
Expand(s) ==
    IF Len(s) < 2 THEN s
    ELSE IF s[1] = " " /\ s[2] = CheckGlyph
         THEN <<".", ".", ".">> \o Expand(SubSeq(s, 3, Len(s)))
         ELSE <<s[1]>> \o Expand(Tail(s))

\* txt is msg with the occurrences of "..." replaced by " ✓", leftmost
\* first: putting them back gives msg, no "..." is left, and no "." stands
\* directly before a replacement.
IsDotsReplaced(msg, txt) ==
    /\ Expand(txt) = msg
    /\ ~HasDots(txt)
    /\ \A i \in 1 .. (Len(txt) - 2) :
          ~(txt[i] = "." /\ txt[i + 1] = " " /\ txt[i + 2] = CheckGlyph)

\* C6: on normal completion the one stop() is made with the success glyph
\* and the success color, and its text is success_message when one is
\* given, otherwise message with "..." replaced by " ✓": a message without
\* "..." is used unchanged and "a..." gives "a ✓".  The status line written
\* carries that text.
C6_SuccessCompletionText ==
    (Exited /\ work.kind = "return") =>
        /\ Cardinality(OpsNamed("stop")) = 1
        /\ \A i \in OpsNamed("stop") :
              LET a == oplog[i].args
              IN  /\ a.symbol = CheckGlyph
                  /\ a.symbol_color = GREEN
                  /\ argSuccess # <<>> => a.final_message = argSuccess
                  /\ argSuccess = <<>> => IsDotsReplaced(argMessage, a.final_message)
                  /\ (argSuccess = <<>> /\ ~HasDots(argMessage)) =>
                        a.final_message = argMessage
                  /\ (argSuccess = <<>> /\ argMessage = <<"a", ".", ".", ".">>) =>
                        a.final_message = <<"a", " ", CheckGlyph>>
                  /\ \A j \in Lines(spin) :
                        /\ out[j].text = a.final_message
                        /\ out[j].symbol = CheckGlyph
                        /\ out[j].color = GREEN
                  /\ a.final_message # <<>> => Lines(spin) # {}

\* C6 witness: an activation entered with "a..." and no success_message,
\* whose work updated the message, completed and wrote the line "a ✓".
C6_Witness ==
    /\ Exited
    /\ work.kind = "return"
    /\ argSuccess = <<>>
    /\ argMessage = <<"a", ".", ".", ".">>
    /\ nupdates > 0
    /\ \E j \in Lines(spin) : out[j].text = <<"a", " ", CheckGlyph>>

\* The Spinner operations of an activation other than the update_message
\* calls of the enclosed work.
RECURSIVE CoreOps(_)
CoreOps(ops) ==
    IF ops = <<>> THEN <<>>
    ELSE IF Head(ops).op = "update_message" THEN CoreOps(Tail(ops))
         ELSE <<Head(ops)>> \o CoreOps(Tail(ops))

\* What an activation with arguments (msg, success) does with its Spinner
\* when the enclosed work ends with outcome w, whichever the form.
ScopeContract(msg, success, w) ==
    <<[op |-> "construct", message |-> msg, color |-> CYAN], [op |-> "start"]>>
    \o (IF w.kind = "return"
        THEN <<StopOp([final_message |-> IF success # <<>> THEN success
                                         ELSE ReplaceDots(msg),
                       symbol |-> CheckGlyph, symbol_color |-> GREEN])>>
        ELSE IF w.cls = "Exception"
             THEN <<StopOp([final_message |-> <<"Failed: ">> \o w.desc,
                            symbol |-> CrossGlyph, symbol_color |-> RED])>>
             ELSE <<>>)

\* C10: the scope form and the wrapper form have identical semantics: the
\* Spinner operations an activation performs and the outcome it hands to
\* its caller are one function of the message, the success_message and the
\* outcome of the enclosed work, the same for both forms.
C10_FormsAgree ==
    Exited =>
        /\ form \in {"scope", "wrapper"}
        /\ CoreOps(oplog) = ScopeContract(argMessage, argSuccess, work)
        /\ result = work

\* C10 witness: a wrapper activation whose function raised an ordinary
\* error has stopped its Spinner with the failure line and re-raised.
C10_Witness ==
    /\ Exited
    /\ form = "wrapper"
    /\ work.kind = "raise"
    /\ work.cls = "Exception"
    /\ work.desc # <<>>
    /\ Lines(spin) # {}
    /\ result = work

\* ------------------------------------------------- concurrent stop() calls
\* One Spinner is started by the main context; once start() has returned,
\* each of the two contexts calls stop() on it once, at any moment.  The
\* steps of the two calls interleave freely: the test of self.running
\* (line 109) and the assignment self.running = False (line 110) are
\* separate steps, and nothing in stop() excludes a second caller between
\* them.

\* start() has returned: its last statement launched the thread.
StartReturned ==
    /\ thread[1] # None
    /\ tpc[thread[1]] \notin {"unborn", "created"}

\* The context has called stop() (the call may still be in progress).
CalledStop(c) ==
    \/ fpc[c] \in {"stop_test", "stop_set", "stop_join", "stop_clear", "stop_print"}
    \/ fret[c] \in {"stop_done", "stop_noop", "stop_raised"}

ConcStart ==
    /\ mode = "conc"
    /\ ncalls = 0
    /\ ncalls' = ncalls + 1
    /\ Call("main", 1, "start_test", NoArgs)
    /\ UNCHANGED <<spinnerVars, threadVars, out, scopeVars>>

ConcStop ==
    /\ mode = "conc"
    /\ StartReturned
    /\ \E c \in Ctx :
          /\ ~CalledStop(c)
          /\ \E fm \in ApiFinals, sym \in {CheckGlyph, CrossGlyph} :
                Call(c, 1, "stop_test",
                     [final_message |-> fm, symbol |-> sym,
                      symbol_color |-> IF sym = CheckGlyph THEN GREEN ELSE RED])
    /\ ncalls' = ncalls + 1
    /\ UNCHANGED <<spinnerVars, threadVars, out, scopeVars>>

\* One step of the Spinner method in progress in either context.
ConcStep == \E c \in Ctx : SpinnerStep(c)

InitConc ==
    /\ InitCommon
    /\ mode = "conc"
    /\ nspinners = 1
    /\ \E m \in ApiMessages : message = [s \in Spinners |-> IF s = 1 THEN m ELSE <<>>]
    /\ argMessage = <<>>
    /\ argSuccess = <<>>

NextConc ==
    \/ ConcStart
    \/ ConcStop
    \/ ConcStep
    \/ Animate

SpecConc == InitConc /\ [][NextConc]_vars

\* Both contexts have called stop() and both calls have ended.
BothStopsEnded ==
    \A c \in Ctx :
        /\ fpc[c] = "idle"
        /\ fret[c] \in {"stop_done", "stop_noop", "stop_raised"}

\* C11: when two contexts call stop() concurrently on one running Spinner,
\* exactly one call takes effect and the other is a no-op: once both calls
\* have ended no exception was raised, the clear sequence was written
\* once, at most one final status line was written, and the Spinner is not
\* running with its thread exited.
C11_OneStopTakesEffect ==
    BothStopsEnded =>
        /\ \A c \in Ctx : fret[c] # "stop_raised"
        /\ Cardinality({c \in Ctx : fret[c] = "stop_done"}) = 1
        /\ Cardinality({c \in Ctx : fret[c] = "stop_noop"}) = 1
        /\ Cardinality(Clears(1)) = 1
        /\ Cardinality(Lines(1)) <= 1
        /\ ~running[1]
        /\ LiveThreads(1) = {}

\* ------------------------------------------------ Spinner claims, continued
\* The position in the output of the last frame written for Spinner s.
LastFrame(s) == CHOOSE i \in Frames(s) : \A j \in Frames(s) : j <= i

\* C12: the message carried by the last frame written before stop()
\* completes is the last message that was set, allowing one animation tick
\* for an update to take effect: if the animation loop has read
\* self.message since its last assignment (seen), then when stop() has
\* returned the last frame in the output carries the current message.
C12_LastFrameShowsLastMessage ==
    (StopReturned /\ seen[1]) =>
        /\ Frames(1) # {}
        /\ out[LastFrame(1)].text = message[1]

\* C12 witness: stop() has returned after a frame with one message and a
\* later frame with another; the later one carries the last message set.
C12_Witness ==
    /\ StopReturned
    /\ seen[1]
    /\ \E i \in Frames(1) :
          /\ i < LastFrame(1)
          /\ out[i].text # out[LastFrame(1)].text
    /\ out[LastFrame(1)].text = message[1]

\* The thread has passed its flag check (line 77) and has not yet made the
\* write of that iteration (line 80): it is about to execute, or is
\* executing, a frame write.
WritePending(t) == tpc[t] \in {"format", "write"}

\* Some context is inside stop() on Spinner s, after self.running = False
\* (line 110) and before the join (line 112) has completed.
InStopWindow(s) == \E c \in Ctx : fself[c] = s /\ fpc[c] = "stop_join"

\* C13 as stated: in every reachable state, the states inside stop()
\* between clearing the flag and the join completing included, running =
\* false implies that no thread of the Spinner has a frame write pending.
C13_NotRunningNoWritePendingAnywhere ==
    \A s \in Spinners :
        ~running[s] => \A t \in Threads : tself[t] = s => ~WritePending(t)

\* C13: in every reachable state outside the window inside stop() between
\* clearing the flag and the join completing, running = false implies that
\* no thread of the Spinner has passed its flag check with a write pending.
C13_NotRunningNoWritePending ==
    \A s \in Spinners :
        (~running[s] /\ ~InStopWindow(s)) =>
            \A t \in Threads : tself[t] = s => ~WritePending(t)

\* C13 witness: stop() has cleared the flag and its join has completed on a
\* thread that wrote a frame; the clear sequence is about to be written.
C13_Witness ==
    /\ ~running[1]
    /\ fpc["main"] = "stop_clear"
    /\ thread[1] # None
    /\ \E i \in Frames(1) : out[i].by = thread[1]
    /\ ~WritePending(thread[1])

\* The position in the output of the last clear sequence of Spinner s.
LastClear(s) == CHOOSE i \in Clears(s) : \A j \in Clears(s) : j <= i

\* C14: the output of each start()/stop() cycle is zero or more frames of
\* the cycle's thread, then the clear sequence, then one final status line
\* if and only if final_message is non-empty: a status line directly
\* follows the clear sequence of its Spinner, no thread writes frames on
\* both sides of a clear sequence, and when stop() has returned the output
\* ends with the clear sequence (empty final_message) or with the clear
\* sequence and the status line made of stop()'s arguments.
C14_TraceShape ==
    /\ \A i \in DOMAIN out :
          out[i].k = "line" =>
              /\ i > 1
              /\ out[i - 1].k = "clear"
              /\ out[i - 1].of = out[i].of
    /\ \A c \in Clears(1) : \A i, j \in Frames(1) :
          (i < c /\ c < j) => out[i].by # out[j].by
    /\ StopReturned =>
          /\ Clears(1) # {}
          /\ \A i \in Frames(1) : out[i].by = thread[1] => i < LastClear(1)
          /\ IF fargs["main"].final_message # <<>>
             THEN /\ Len(out) = LastClear(1) + 1
                  /\ out[Len(out)] = [k |-> "line", of |-> 1,
                                      color |-> fargs["main"].symbol_color,
                                      symbol |-> fargs["main"].symbol,
                                      text |-> fargs["main"].final_message]
             ELSE Len(out) = LastClear(1)

\* C14 witness: stop() with a final message has returned and the output
\* ends with a frame, the clear sequence and the status line.
C14_Witness ==
    /\ StopReturned
    /\ Len(out) >= 3
    /\ out[Len(out) - 2].k = "frame"
    /\ out[Len(out) - 1].k = "clear"
    /\ out[Len(out)].k = "line"

\* C15: cancellation is by flag polling only.  A thread leaves _animate
\* only at a flag check that finds running false; while the flag is false
\* a live thread can only finish the iteration it is in (format, write the
\* one frame whose flag check preceded the flip, sleep) and then exit at
\* its next flag check, never starting another iteration; and the flag
\* stays false until the thread has exited.
C15_FlagPollingOnly ==
    [][\A t \in Threads :
          /\ (tpc[t] # "exited" /\ tpc'[t] = "exited") =>
                (tpc[t] = "check" /\ ~running[tself[t]])
          /\ (Live(t) /\ ~running[tself[t]]) =>
                /\ tpc'[t] # tpc[t] =>
                      \/ tpc[t] = "format" /\ tpc'[t] = "write" /\ out' = out
                      \/ tpc[t] = "write" /\ tpc'[t] = "sleep"
                                          /\ Len(out') = Len(out) + 1
                      \/ tpc[t] = "sleep" /\ tpc'[t] = "check" /\ out' = out
                      \/ tpc[t] = "check" /\ tpc'[t] = "exited" /\ out' = out
                /\ tpc'[t] # "exited" => ~running'[tself[t]]
                /\ tpc'[t] = tpc[t] => out' = out
      ]_vars

\* C15 witness: stop() has cleared the flag and waits in the join while the
\* thread, whose flag check preceded the flip, is about to write its frame.
C15_Witness ==
    /\ ~running[1]
    /\ fpc["main"] = "stop_join"
    /\ thread[1] # None
    /\ tpc[thread[1]] = "write"

\* ------------------------------------------------------------- fairness
\* The scheduler keeps running both the caller's thread and the animation
\* thread: a write, a flush or a sleep of _animate always completes, and a
\* Spinner method in progress in the main context takes its next step when
\* it can.  Nothing is assumed about the driver making further calls.
\* One Spinner("a") has been constructed; nothing has been called.
InitFair ==
    /\ Init
    /\ message[1] = <<"a">>

SpecFair ==
    /\ InitFair
    /\ [][Next]_vars
    /\ WF_vars(Animate)
    /\ WF_vars(SpinnerStep("main"))

\* C16: every stop() call made on a running Spinner eventually returns:
\* a call that has found running true (it is about to clear the flag)
\* leads to the call having returned normally.
C16_StopEventuallyReturns ==
    (fpc["main"] = "stop_set") ~> StopReturned

\* C16 witness: stop() has cleared the flag and is blocked in the join on a
\* thread that is still inside its loop.
C16_Witness ==
    /\ fpc["main"] = "stop_join"
    /\ thread[1] # None
    /\ Live(thread[1])
    /\ ~running[1]

\* ----------------------------------------------------- nested activations
\* The enclosed work of a UI.progress activation enters UI.progress again
\* on the same UI instance: the outer activation is suspended in its with
\* body until the inner one has exited.

\* The messages of the activations of SpecNested.
NestedMessages == {<<"a">>, <<"a", ".", ".", ".">>}

\* The enclosed work reaches an inner `with ui.progress(...)`: lines 206-207
\* run again, on the same UI instance, for a new Spinner.
ProgressEnterNested ==
    /\ mode = "scope"
    /\ form = "scope"
    /\ spc = "work"
    /\ work = NoWork
    /\ CallReturned
    /\ Len(outer) < MaxNesting
    /\ nspinners < MaxActivations + MaxNesting
    /\ outer' = Append(outer, [spin |-> spin, nupdates |-> nupdates, oplog |-> oplog])
    /\ work' = NoWork
    /\ nupdates' = 0
    /\ result' = NoWork
    /\ SpinnerInit(nspinners + 1, argMessage, CYAN)
    /\ spin' = nspinners + 1
    /\ current_spinner' = nspinners + 1
    /\ form' = "scope"
    /\ spc' = "start"
    /\ oplog' = <<[op |-> "construct", message |-> argMessage, color |-> CYAN]>>
    /\ UNCHANGED <<threadVars, out, callVars, ncalls, mode, argMessage, argSuccess, nacts>>

\* The inner activation has exited: control is back in the enclosed work of
\* the activation that contains it.  An error the inner activation let
\* through is raised there (the with bodies of the repository catch
\* nothing).
ProgressResumeOuter ==
    /\ mode = "scope"
    /\ spc = "done"
    /\ outer # <<>>
    /\ LET o == outer[Len(outer)]
       IN  /\ spin' = o.spin
           /\ nupdates' = o.nupdates
           /\ oplog' = o.oplog
    /\ outer' = SubSeq(outer, 1, Len(outer) - 1)
    /\ form' = "scope"
    /\ spc' = "work"
    /\ work' = IF result.kind = "raise" THEN result ELSE NoWork
    /\ result' = NoWork
    /\ UNCHANGED <<spinnerVars, threadVars, out, callVars, ncalls, mode, argMessage,
                   argSuccess, current_spinner, nacts>>

InitNested ==
    /\ InitCommon
    /\ mode = "scope"
    /\ nspinners = 0
    /\ message = [s \in Spinners |-> <<>>]
    /\ argMessage \in NestedMessages
    /\ argSuccess \in SuccessMessages

NextNested ==
    \/ NextScope
    \/ ProgressEnterNested
    \/ ProgressResumeOuter

SpecNested == InitNested /\ [][NextNested]_vars

\* The code of a UI.progress activation is executing between line 207 and
\* the assignment of line 218.
ScopeActive ==
    /\ form = "scope"
    /\ spc \in {"start", "work", "stop_ok", "stop_fail", "finally"}

\* C17: UI.current_spinner refers to the Spinner of the UI.progress
\* activation that is executing, throughout the activation, and is None
\* whenever no activation of the UI is in progress (none executing and none
\* suspended around an inner one), after any sequence of entries and
\* exits, nested ones included.
C17_CurrentSpinnerTracksScope ==
    /\ ScopeActive => current_spinner = spin
    /\ (~ScopeActive /\ outer = <<>>) => current_spinner = None

\* ---------------------------------------------------------- long messages
\* A Spinner constructed with a message of nine characters (the messages of
\* the repository are longer: "Loading market data..." has 22); the driver
\* of Spec then calls start(), stop() and update_message() on it.
LongMessage == <<"a", "a", "a", "a", "a", "a", "a", "a", "a">>

InitLong ==
    /\ InitCommon
    /\ mode = "api"
    /\ nspinners = 1
    /\ message = [s \in Spinners |-> IF s = 1 THEN LongMessage ELSE <<>>]
    /\ argMessage = <<>>
    /\ argSuccess = <<>>

SpecLong == InitLong /\ [][Next]_vars

\* The columns a frame occupies on the terminal line: the glyph, a space
\* and the rendered message (the carriage return and the colour codes of
\* line 80 occupy none).
FrameWidth(f) == 2 + Len(f.text)

\* C18: the clear sequence written by stop() is at least as wide as the
\* last frame rendered before it, in every interleaving of update_message
\* calls with the animation loop.
C18_ClearCoversLastFrame ==
    \A c \in Clears(1) :
        (c > 1 /\ out[c - 1].k = "frame") =>
            out[c].width >= FrameWidth(out[c - 1])

\* ------------------------------------- Progress Scope claims, continued
\* C19: the completion text of the success path is computed only from the
\* message and success_message given at scope entry: whatever
\* update_message calls the enclosed work made through the yielded handle,
\* the stop() of a UI.progress activation whose work returned is given
\* success_message, or the entry message with its dots replaced, and that
\* is the status line written.
C19_CompletionTextFromArguments ==
    (Exited /\ form = "scope" /\ work.kind = "return") =>
        LET text == IF argSuccess # <<>> THEN argSuccess ELSE ReplaceDots(argMessage)
        IN  /\ \A i \in OpsNamed("stop") : oplog[i].args.final_message = text
            /\ \A j \in Lines(spin) : out[j].text = text
            /\ OpsNamed("stop") # {}

\* C19 witness: the enclosed work changed the Spinner's message to one that
\* would give another completion text, and the activation completed with
\* the text of its entry message.
C19_Witness ==
    /\ Exited
    /\ form = "scope"
    /\ work.kind = "return"
    /\ nupdates > 0
    /\ argSuccess = <<>>
    /\ ReplaceDots(message[spin]) # ReplaceDots(argMessage)
    /\ \E j \in Lines(spin) : out[j].text = ReplaceDots(argMessage)

====
